---- MODULE Spec2Model ----
(***************************************************************************)
(* KazTron: the bot supervision loop with exponential backoff             *)
(* (kaztron/runner.py) and the project wizard manager                     *)
(* (kaztron/cog/projects/wizard.py).                                      *)
(*                                                                         *)
(* Five state machines share this module.  Each has its own initial       *)
(* predicate and next-state relation and leaves the variables of the      *)
(* others untouched:                                                       *)
(*   SpecBackoff     a Backoff object driven by arbitrary callers          *)
(*   SpecSupervisor  run_reboot_loop() and the run() sessions it starts    *)
(*   SpecWizard      a WizardManager whose coroutines interleave at awaits *)
(*   SpecRestored    a WizardManager built by from_dict from persisted data*)
(*   SpecLifecycle   a WizardManager persisted and restored across restarts*)
(***************************************************************************)
EXTENDS Integers, Sequences, FiniteSets, Bags, TLC

VARIABLES
    \* ---- Backoff (runner.py:178-204)
    bo_n,          \* Backoff.n, the attempt count
    bo_max,        \* Backoff.max
    wait_time,     \* run_reboot_loop's wait_time / the value next() returned
    next_result,   \* outcome of the latest Backoff.next(): "none", "ok", "StopIteration"
    consec,        \* history: next() calls since the counter was last set to 0
    last_op,       \* history: the latest operation applied to the Backoff
    was_reset,     \* history: reset() has been applied since construction
    \* ---- supervisor and session (runner.py:29-144)
    reset_task,    \* the loop.call_later handle: [state, seq]
    due,           \* wait_time has elapsed since reset_task was scheduled
    pc,            \* position of the (single) supervisor thread
    path,          \* how the latest session left its try block
    exc,           \* the exception in flight, "none" if there is none
    exit_code,     \* argument of the sys.exit() in flight or performed
    exit_kind,     \* how the process ended: "running", "sys_exit", "returned", "raised"
    conn,          \* the chat client's connection: "none", "open", "closed"
    tasks,         \* asyncio tasks of the event loop, by id
    pending,       \* the set collected by Task.all_tasks() in run()'s finally
    state_writes,  \* KazCog.state.write() calls of the current session
    loop_closed,   \* loop.close() calls
    reset_fired,   \* history: some scheduled reset_backoff callback has run
    \* ---- WizardManager (cog/projects/wizard.py:75-186)
    wizards,       \* WizardManager.wizards: kind -> (user id -> wizard)
    wizard_keys,   \* ProjectWizard.question_keys, the key list the class was made with
    hs,            \* the coroutines of the manager in progress (a bag)
    ev             \* the latest step of a manager operation and what it produced

bo_vars  == <<bo_n, bo_max, wait_time, next_result, consec, last_op, was_reset>>
sup_vars == <<reset_task, due, pc, path, exc, exit_code, exit_kind, conn, tasks,
              pending, state_writes, loop_closed, reset_fired>>
wiz_vars == <<wizards, wizard_keys, hs, ev>>
vars     == <<bo_vars, sup_vars, wiz_vars>>

----------------------------------------------------------------------------
(* ErrorCodes, runner.py:19-26 *)
OK == 0
ERROR == 1
EXTENSION_LOAD == 7
RETRY_MAX_ATTEMPTS == 8

(* Backoff(initial_time=3.0, base=1.58, max_attempts=12), runner.py:123 *)
SupervisorMaxAttempts == 12
(* A smaller ceiling, so that the limit is also reached in short runs. *)
ScenarioMaxAttempts == 3
MaxAttemptsChoices == {ScenarioMaxAttempts, SupervisorMaxAttempts}

(* random.randint(0, 1000): the inclusive range of the jitter, in 1/1000 s. *)
JitterMax == 1000
Jitters == {0, JitterMax}

(* Calls to next() a caller may still make once the limit has been reached. *)
ExtraCalls == 2
(* Tasks that may be alive on the event loop at once. *)
MaxTasks == 2
TaskIds == 1..MaxTasks

(* wait_time = 0 (runner.py:124), the literal zero delay. *)
ZeroWait == [zero |-> TRUE, exp |-> 0, jitter |-> 0]

(* t0 * base**n + randint(0, 1000)/1000 (runner.py:196).  The delay is kept  *)
(* symbolically: the exponent n applied to base, and the jitter in 1/1000 s. *)
Delay(n, j) == [zero |-> FALSE, exp |-> n, jitter |-> j]

----------------------------------------------------------------------------
(* Backoff.next(), runner.py:193-200.  b is <<n, max>>; the result is the   *)
(* new n, the delay returned and whether StopIteration was raised.          *)
(* variants of Backoff.next() with a slip in the limit test *)
Backoff_next_late(n, max, j) ==
    IF n <= max
        THEN [n |-> n + 1, tn |-> Delay(n, j), raised |-> FALSE]
        ELSE [n |-> n, tn |-> ZeroWait, raised |-> TRUE]

Backoff_next_early(n, max, j) ==
    IF n < max - 1
        THEN [n |-> n + 1, tn |-> Delay(n, j), raised |-> FALSE]
        ELSE [n |-> n, tn |-> ZeroWait, raised |-> TRUE]

Backoff_next(n, max, j) ==
    IF n < max
        THEN [n |-> n + 1, tn |-> Delay(n, j), raised |-> FALSE]
        ELSE [n |-> n, tn |-> ZeroWait, raised |-> TRUE]

(* a reset() that forgets the assignment *)
Backoff_reset_keeps(n) == n

(* Backoff.reset(), runner.py:202-204 *)
Backoff_reset(n) == 0

(* a reset_backoff that never resets *)
reset_backoff_never(n, sequence) == n

(* a reset_backoff that does not compare the sequence number *)
reset_backoff_unguarded(n, sequence) == Backoff_reset(n)

(* reset_backoff(backoff, sequence), runner.py:115-117 *)
reset_backoff(n, sequence) ==
    IF sequence = n THEN Backoff_reset(n) ELSE n

----------------------------------------------------------------------------
(* The project wizard, cog/projects/wizard.py.  ProjectWizard is built by    *)
(* make_wizard (kaztron.utils.wizard); its methods are modelled by what the  *)
(* manager relies on: a position in the key list, the answers stored so far  *)
(* and the keys that may be skipped.                                         *)

(* wizard.py:16-17 *)
keys == <<"title", "genre", "subgenre", "type", "pitch">>
keys_optional == {"subgenre"}

(* ProjectWizard.question_keys: make_wizard(keys, ...), wizard.py:70 *)
question_keys == keys
KeySet == {question_keys[i] : i \in 1..Len(question_keys)}

(* make_wizard builds the class from the key list it is given: the list of  *)
(* the program, and the two-key list of the registration scenario           *)
ScenarioKeys == <<"title", "genre">>
KeyLists == {ScenarioKeys, question_keys}
KeysOf(ks) == {ks[i] : i \in 1..Len(ks)}

(* Every operation of the manager reads and writes only the entries of the *)
(* member it is called for (member.id is the key of every access), so the   *)
(* coroutines of one member are followed.                                   *)
Users == {"U"}
NoUser == "nobody"
(* coroutines of the manager that may be in progress at once *)
MaxHandlers == 2

(* the kinds, in the order of the dict literal at wizard.py:96-99 *)
Kinds == <<"new", "edit">>
KindSet == {"new", "edit"}

(* texts a user may send: an acceptable answer, one every validator         *)
(* rejects, and the skip token                                              *)
Texts == {"good", "bad", "none"}
SkipToken == "none"

Absent == <<>>

(* validators, wizard.py:55-62: the length validators return the text, the  *)
(* genre and type validators look the name up and return the object found   *)
LookupKeys == {"genre", "type"}
Valid(k, text) ==
    IF k \in LookupKeys THEN text = "good" ELSE text \in {"good", "none"}
Validated(k, text) ==
    IF k \in LookupKeys THEN <<"object", text>> ELSE <<text>>

(* ProjectWizard(member.id, timestamp), wizard.py:123, 138-139 *)
NewWizard(kind) ==
    [current_index |-> 0,
     answers       |-> [k \in KeySet |-> Absent],
     raw_answers   |-> [k \in KeySet |-> Absent],
     opts          |-> IF kind = "edit" THEN KeysOf(wizard_keys)
                                          ELSE keys_optional \cap KeysOf(wizard_keys)]

(* ProjectWizard.is_done *)
is_done(w) == w.current_index = Len(wizard_keys)

(* ProjectWizard.answer(text): the outcome and the wizard after it *)
answer(w, text) ==
    IF is_done(w) THEN [outcome |-> "WizardDone", w |-> w]
    ELSE LET k == wizard_keys[w.current_index + 1] IN
         IF k \in w.opts /\ text = SkipToken
             THEN [outcome |-> "ok", w |-> [w EXCEPT !.current_index = @ + 1]]
         ELSE IF ~Valid(k, text)
             THEN [outcome |-> "ValidationError", w |-> w]
         ELSE [outcome |-> "ok",
               w |-> [w EXCEPT !.current_index = @ + 1,
                               !.answers[k] = Validated(k, text),
                               !.raw_answers[k] = <<text>>]]

(* WizardManager.__init__, wizard.py:94-99 *)
EmptyMap == [u \in {} |-> Absent]
EmptyManager == [k \in KindSet |-> EmptyMap]

(* del user_wizard_map[member.id] / self.wizards[kind][member.id] = w *)
Without(m, u) == [x \in (DOMAIN m) \ {u} |-> m[x]]
With(m, u, w) == [x \in (DOMAIN m) \cup {u} |-> IF x = u THEN w ELSE m[x]]

(* a has_open_wizard that looks at the 'new' mapping only *)
has_open_wizard_new_only(wz, u) == u \in DOMAIN wz["new"]

(* WizardManager.has_open_wizard, wizard.py:101-102 *)
has_open_wizard(wz, u) == \E k \in KindSet : u \in DOMAIN wz[k]

(* WizardManager.get_wizard_for, wizard.py:104-113: the kind of the first   *)
(* mapping, in dict order, that holds the member; "none" for the KeyError   *)
get_wizard_for(wz, u) ==
    IF u \in DOMAIN wz[Kinds[1]] THEN Kinds[1]
    ELSE IF u \in DOMAIN wz[Kinds[2]] THEN Kinds[2]
    ELSE "none"

(* WizardManager.send_question up to its await, wizard.py:115-116: looking  *)
(* the wizard up and reading its question may raise                         *)
QuestionFor(wz, u) ==
    IF get_wizard_for(wz, u) = "none" THEN "NoActiveWizard"
    ELSE IF is_done(wz[get_wizard_for(wz, u)][u]) THEN "WizardDone"
    ELSE "ok"

(* a cleanup that does what awaiting cancel_wizards(member) would do to the *)
(* mappings                                                                 *)
CancelOnFailure_awaited(wz, u) == [k \in KindSet |-> Without(wz[k], u)]

(* self.cancel_wizards(member) in the except clauses, wizard.py:129, 146:   *)
(* cancel_wizards is a coroutine function (wizard.py:167) and the call is   *)
(* not awaited, so the coroutine object is built and dropped: no statement  *)
(* of its body runs                                                         *)
CancelOnFailure(wz, u) == wz

(* text is the message content given (<<>> if none).  ret is the tuple      *)
(* (wiz_name, wizard) that close_wizard binds at wizard.py:158 and returns  *)
(* at wizard.py:163 once its send has ended: the names are not assigned     *)
(* again and the wizard, no longer in a mapping, is not reachable by any    *)
(* other coroutine, so it is recorded when it is bound                      *)
NoEvent == [op |-> "none", user |-> NoUser, outcome |-> "none", sent |-> "none",
            kind |-> "none", lost |-> FALSE, text |-> <<>>, ret |-> <<>>]

IdleWizardManager ==
    /\ wizards = EmptyManager
    /\ hs = EmptyBag
    /\ ev = NoEvent

NoHandle == [state |-> "none", seq |-> 0]

IdleSupervisor ==
    /\ IdleWizardManager
    /\ wizard_keys = question_keys
    /\ due = FALSE
    /\ pc = "idle"
    /\ path = "none"
    /\ exc = "none"
    /\ exit_code = OK
    /\ exit_kind = "running"
    /\ conn = "none"
    /\ tasks = [t \in TaskIds |-> "absent"]
    /\ pending = {}
    /\ state_writes = 0
    /\ loop_closed = 0
    /\ reset_fired = FALSE

sup_rest == <<due, pc, path, exc, exit_code, exit_kind, conn, tasks, pending,
              state_writes, loop_closed>>

----------------------------------------------------------------------------
(* A Backoff object on its own: callers invoke next() and reset() in any    *)
(* order, and a reset may be scheduled with call_later, tagged with the     *)
(* counter's value, to run or be cancelled later (runner.py:115-117, 126).  *)

(* Backoff.__init__, runner.py:186-191 *)
InitBackoff ==
    /\ bo_max \in MaxAttemptsChoices
    /\ bo_n = Backoff_reset(0)
    /\ wait_time = ZeroWait
    /\ next_result = "none"
    /\ consec = 0
    /\ last_op = "init"
    /\ was_reset = FALSE
    /\ reset_task = NoHandle
    /\ IdleSupervisor

(* a call of Backoff.next(), runner.py:193-200 *)
BoNext ==
    /\ consec < bo_max + ExtraCalls
    /\ \E j \in Jitters :
          LET r == Backoff_next(bo_n, bo_max, j) IN
          /\ bo_n' = r.n
          /\ wait_time' = IF r.raised THEN wait_time ELSE r.tn
          /\ next_result' = IF r.raised THEN "StopIteration" ELSE "ok"
    /\ consec' = consec + 1
    /\ last_op' = "next"
    /\ UNCHANGED <<wiz_vars, bo_max, was_reset, sup_vars>>

(* a call of Backoff.reset(), runner.py:202-204 *)
BoReset ==
    /\ bo_n' = Backoff_reset(bo_n)
    /\ consec' = 0
    /\ last_op' = "reset"
    /\ was_reset' = TRUE
    /\ UNCHANGED <<wiz_vars, bo_max, wait_time, next_result, sup_vars>>

(* loop.call_later(wait_time, reset_backoff, bo_timer, bo_timer.n), runner.py:126 *)
BoSchedule ==
    /\ reset_task.state # "pending"
    /\ reset_task' = [state |-> "pending", seq |-> bo_n]
    /\ UNCHANGED <<wiz_vars, bo_vars, sup_rest, reset_fired>>

(* the timer runs reset_backoff(bo_timer, sequence), runner.py:115-117 *)
BoResetFires ==
    /\ reset_task.state = "pending"
    /\ bo_n' = reset_backoff(bo_n, reset_task.seq)
    /\ consec' = IF reset_task.seq = bo_n THEN 0 ELSE consec
    /\ last_op' = IF reset_task.seq = bo_n THEN "reset" ELSE "stale_reset"
    /\ was_reset' = (was_reset \/ reset_task.seq = bo_n)
    /\ reset_task' = [reset_task EXCEPT !.state = "fired"]
    /\ reset_fired' = TRUE
    /\ UNCHANGED <<wiz_vars, bo_max, wait_time, next_result, sup_rest>>

(* reset_task.cancel(), runner.py:129 *)
BoCancel ==
    /\ reset_task.state = "pending"
    /\ reset_task' = [reset_task EXCEPT !.state = "cancelled"]
    /\ UNCHANGED <<wiz_vars, bo_vars, sup_rest, reset_fired>>

NextBackoff == BoNext \/ BoReset \/ BoSchedule \/ BoResetFires \/ BoCancel

SpecBackoff == InitBackoff /\ [][NextBackoff]_vars

----------------------------------------------------------------------------
(* run_reboot_loop() and run(), runner.py:29-144.  One thread executes both: *)
(* pc is its position.  The event loop runs only inside the                  *)
(* loop.run_until_complete() calls of run(); there tasks are spawned and     *)
(* finish and the call_later timer may fire.  A KeyboardInterrupt is         *)
(* delivered at the blocking calls: login, connect and time.sleep.           *)

SessionPcs == {"setup", "login", "connect", "close", "cancel_tasks", "gather",
               "write_state"}
(* positions inside a loop.run_until_complete() call *)
LoopRunningPcs == {"login", "connect", "close", "gather"}
DoneStatuses == {"finished", "cancelled"}

(* runner.py:123-124 *)
InitSupervisor ==
    /\ bo_max \in MaxAttemptsChoices
    /\ bo_n = Backoff_reset(0)
    /\ wait_time = ZeroWait
    /\ next_result = "none"
    /\ consec = 0
    /\ last_op = "init"
    /\ was_reset = FALSE
    /\ reset_task = NoHandle
    /\ due = FALSE
    /\ pc = "schedule"
    /\ path = "none"
    /\ exc = "none"
    /\ exit_code = OK
    /\ exit_kind = "running"
    /\ conn = "none"
    /\ tasks = [t \in TaskIds |-> "absent"]
    /\ pending = {}
    /\ state_writes = 0
    /\ loop_closed = 0
    /\ reset_fired = FALSE
    /\ IdleWizardManager
    /\ wizard_keys = question_keys

(* reset_task = loop.call_later(wait_time, reset_backoff, bo_timer,         *)
(* bo_timer.n) and the call of run(loop), runner.py:126-127.  A new client  *)
(* is built by each run(); the tasks of the previous one are all done.      *)
SupSchedule ==
    /\ pc = "schedule"
    /\ reset_task' = [state |-> "pending", seq |-> bo_n]
    /\ due' = wait_time.zero
    /\ pc' = "setup"
    /\ path' = "none"
    /\ conn' = "none"
    /\ tasks' = [t \in TaskIds |-> "absent"]
    /\ pending' = {}
    /\ state_writes' = 0
    /\ UNCHANGED <<wiz_vars, bo_vars, exc, exit_code, exit_kind, loop_closed, reset_fired>>

(* run(): configuration, client construction, extension loading,            *)
(* runner.py:33-66.  A failing extension calls sys.exit(EXTENSION_LOAD);    *)
(* any other fault propagates; neither is inside run()'s try block.         *)
RunSetup ==
    /\ pc = "setup"
    /\ \/ /\ pc' = "login"
          /\ UNCHANGED <<path, exc, exit_code>>
       \/ /\ pc' = "except"
          /\ path' = "setup_exit"
          /\ exc' = "SystemExit"
          /\ exit_code' = EXTENSION_LOAD
       \/ /\ pc' = "except"
          /\ path' = "setup_fault"
          /\ exc' = "Exception"
          /\ UNCHANGED exit_code
    /\ UNCHANGED <<wiz_vars, bo_vars, reset_task, due, exit_kind, conn, tasks, pending,
                   state_writes, loop_closed, reset_fired>>

(* how the try block of run() is left when `raised` is raised in it,        *)
(* runner.py:72-86: both handlers close the client first                    *)
TryRaises(raised) ==
    /\ pc' = "close"
    /\ exc' = raised
    /\ path' = IF raised = "KeyboardInterrupt" THEN "interrupt" ELSE "exception"

(* loop.run_until_complete(client.login(token)), runner.py:70 *)
RunLogin ==
    /\ pc = "login"
    /\ \/ /\ pc' = "connect"
          /\ conn' = "open"
          /\ UNCHANGED <<path, exc>>
       \/ /\ \E raised \in {"Exception", "KeyboardInterrupt"} : TryRaises(raised)
          /\ UNCHANGED conn
    /\ UNCHANGED <<wiz_vars, bo_vars, reset_task, due, exit_code, exit_kind, tasks, pending,
                   state_writes, loop_closed, reset_fired>>

(* loop.run_until_complete(client.connect()), runner.py:71.  connect()      *)
(* returns once the client has been closed (a disconnect).                  *)
RunConnect ==
    /\ pc = "connect"
    /\ \/ /\ pc' = "cancel_tasks"
          /\ conn' = "closed"
          /\ path' = "normal"
          /\ UNCHANGED exc
       \/ /\ \E raised \in {"Exception", "KeyboardInterrupt"} : TryRaises(raised)
          /\ UNCHANGED conn
    /\ UNCHANGED <<wiz_vars, bo_vars, reset_task, due, exit_code, exit_kind, tasks, pending,
                   state_writes, loop_closed, reset_fired>>

(* variants: the interrupt handler returns like the fault handler; the     *)
(* fault handler exits with ErrorCodes.ERROR (the line commented out at     *)
(* runner.py:85)                                                            *)
HandlerOutcome_return(caught) == [exc |-> "none", code |-> exit_code]

HandlerOutcome_exit(caught) ==
    IF caught = "KeyboardInterrupt"
        THEN [exc |-> "SystemExit", code |-> OK]
        ELSE [exc |-> "SystemExit", code |-> ERROR]

(* what each handler of run() leaves in flight after closing the client:    *)
(* sys.exit(ErrorCodes.OK) at runner.py:77, return at runner.py:86          *)
HandlerOutcome(caught) ==
    IF caught = "KeyboardInterrupt"
        THEN [exc |-> "SystemExit", code |-> OK]
        ELSE [exc |-> "none", code |-> exit_code]

(* the except clauses of run(): loop.run_until_complete(client.close()),    *)
(* then sys.exit or return, runner.py:72-86                                 *)
RunClose ==
    /\ pc = "close"
    /\ conn' = "closed"
    /\ exc' = HandlerOutcome(exc).exc
    /\ exit_code' = HandlerOutcome(exc).code
    /\ pc' = "cancel_tasks"
    /\ UNCHANGED <<wiz_vars, bo_vars, reset_task, due, path, exit_kind, tasks, pending,
                   state_writes, loop_closed, reset_fired>>

(* pending = asyncio.Task.all_tasks(loop); gathered = asyncio.gather(...)   *)
(* runner.py:96-97 *)
AllTasks(ts) == {t \in TaskIds : ts[t] # "absent"}

(* gathered.cancel(), runner.py:100: cancels every child not yet done *)
CancelAll(ts, gathered) ==
    [t \in TaskIds |->
        IF t \in gathered /\ ts[t] = "pending" THEN "cancelling" ELSE ts[t]]

(* the finally clause of run() up to gathered.cancel(), runner.py:87-100 *)
RunCancelTasks ==
    /\ pc = "cancel_tasks"
    /\ pending' = AllTasks(tasks)
    /\ tasks' = CancelAll(tasks, AllTasks(tasks))
    /\ pc' = "gather"
    /\ UNCHANGED <<wiz_vars, bo_vars, reset_task, due, path, exc, exit_code, exit_kind, conn,
                   state_writes, loop_closed, reset_fired>>

(* a variant that does not wait for the gathered tasks *)
GatherComplete_nowait(ts, gathered) == TRUE

(* loop.run_until_complete(gathered) returns when every gathered task is    *)
(* done, runner.py:101                                                      *)
GatherComplete(ts, gathered) == \A t \in gathered : ts[t] \in DoneStatuses

(* what is in flight after the inner try of the finally clause: gather was  *)
(* given return_exceptions=True and `except Exception: pass` discards what  *)
(* run_until_complete or gathered.exception() raise, runner.py:97-104       *)
AfterGather(inflight, ts) == inflight

(* runner.py:101-104 *)
RunGather ==
    /\ pc = "gather"
    /\ GatherComplete(tasks, pending)
    /\ exc' = AfterGather(exc, tasks)
    /\ pc' = "write_state"
    /\ UNCHANGED <<wiz_vars, bo_vars, reset_task, due, path, exit_code, exit_kind, conn, tasks,
                   pending, state_writes, loop_closed, reset_fired>>

(* where control goes when run() is left with `inflight` in flight: a       *)
(* SystemExit passes the except clauses of run_reboot_loop, a return        *)
(* resumes the loop at runner.py:128                                        *)
LeaveRun(inflight) == IF inflight = "none" THEN "cancel_reset" ELSE "except"

(* a variant with KazCog.state.write() after the try statement instead of   *)
(* inside its finally clause: reached only when the try block ends normally *)
WritesState_after_try(p) == p = "normal"

(* KazCog.state.write() is the last statement of the finally clause,        *)
(* runner.py:87-106: it runs however the try block was left (p)             *)
WritesState(p) == p \in {"normal", "exception", "interrupt"}

(* KazCog.state.write(), runner.py:106, then run() is left *)
RunWriteState ==
    /\ pc = "write_state"
    /\ state_writes' = IF WritesState(path) THEN state_writes + 1 ELSE state_writes
    /\ pc' = LeaveRun(exc)
    /\ UNCHANGED <<wiz_vars, bo_vars, reset_task, due, path, exc, exit_code, exit_kind, conn,
                   tasks, pending, loop_closed, reset_fired>>

(* a supervisor that goes on to next() without cancelling the reset *)
SupCancelReset_skipped ==
    /\ pc = "cancel_reset"
    /\ pc' = "next"
    /\ UNCHANGED <<wiz_vars, bo_vars, reset_task, due, path, exc, exit_code, exit_kind, conn,
                   tasks, pending, state_writes, loop_closed, reset_fired>>

(* reset_task.cancel(), runner.py:128-129 *)
SupCancelReset ==
    /\ pc = "cancel_reset"
    /\ reset_task' = IF reset_task.state = "pending"
                        THEN [reset_task EXCEPT !.state = "cancelled"]
                        ELSE reset_task
    /\ pc' = "next"
    /\ UNCHANGED <<wiz_vars, bo_vars, due, path, exc, exit_code, exit_kind, conn, tasks, pending,
                   state_writes, loop_closed, reset_fired>>

(* wait_time = bo_timer.next(), runner.py:130 *)
SupBackoffNext ==
    /\ pc = "next"
    /\ \E j \in Jitters :
          LET r == Backoff_next(bo_n, bo_max, j) IN
          /\ bo_n' = r.n
          /\ wait_time' = IF r.raised THEN wait_time ELSE r.tn
          /\ next_result' = IF r.raised THEN "StopIteration" ELSE "ok"
          /\ exc' = IF r.raised THEN "StopIteration" ELSE exc
          /\ pc' = IF r.raised THEN "except" ELSE "sleep"
    /\ consec' = consec + 1
    /\ last_op' = "next"
    /\ UNCHANGED <<wiz_vars, bo_max, was_reset, reset_task, due, path, exit_code, exit_kind,
                   conn, tasks, pending, state_writes, loop_closed, reset_fired>>

(* time.sleep(wait_time), runner.py:131-133 *)
SupSleep ==
    /\ pc = "sleep"
    /\ \/ /\ pc' = "schedule"
          /\ UNCHANGED <<path, exc>>
       \/ /\ pc' = "except"
          /\ path' = "sleep_interrupt"
          /\ exc' = "KeyboardInterrupt"
    /\ UNCHANGED <<wiz_vars, bo_vars, reset_task, due, exit_code, exit_kind, conn, tasks,
                   pending, state_writes, loop_closed, reset_fired>>

(* a variant without the `except KeyboardInterrupt` clause: the interrupt  *)
(* leaves run_reboot_loop unhandled                                         *)
SupHandler_no_interrupt_clause(caught) ==
    CASE caught = "StopIteration" -> [exc |-> "SystemExit", code |-> RETRY_MAX_ATTEMPTS]
      [] OTHER                    -> [exc |-> caught, code |-> exit_code]

(* a variant whose StopIteration handler exits with the generic status *)
SupHandler_generic(caught) ==
    CASE caught = "StopIteration"     -> [exc |-> "SystemExit", code |-> ERROR]
      [] caught = "KeyboardInterrupt" -> [exc |-> "none", code |-> exit_code]
      [] OTHER                        -> [exc |-> caught, code |-> exit_code]

(* the except clauses of run_reboot_loop, runner.py:134-141: what is in     *)
(* flight after them                                                        *)
SupHandler(caught) ==
    CASE caught = "StopIteration"     -> [exc |-> "SystemExit", code |-> RETRY_MAX_ATTEMPTS]
      [] caught = "KeyboardInterrupt" -> [exc |-> "none", code |-> exit_code]
      [] OTHER                        -> [exc |-> caught, code |-> exit_code]

(* runner.py:134-141 *)
SupExcept ==
    /\ pc = "except"
    /\ exc' = SupHandler(exc).exc
    /\ exit_code' = SupHandler(exc).code
    /\ pc' = "finally"
    /\ UNCHANGED <<wiz_vars, bo_vars, reset_task, due, path, exit_kind, conn, tasks, pending,
                   state_writes, loop_closed, reset_fired>>

(* the finally clause of run_reboot_loop: loop.close(), runner.py:142-144;  *)
(* then the process ends the way what is in flight says                     *)
SupFinally ==
    /\ pc = "finally"
    /\ loop_closed' = loop_closed + 1
    /\ exit_kind' = CASE exc = "SystemExit" -> "sys_exit"
                      [] exc = "none"       -> "returned"
                      [] OTHER              -> "raised"
    /\ pc' = "done"
    /\ UNCHANGED <<wiz_vars, bo_vars, reset_task, due, path, exc, exit_code, conn, tasks,
                   pending, state_writes, reset_fired>>

(* the event loop runs the call_later callback once its delay has elapsed:  *)
(* reset_backoff(bo_timer, sequence), runner.py:115-117                     *)
ResetFires ==
    /\ pc \in LoopRunningPcs
    /\ reset_task.state = "pending"
    /\ due
    /\ bo_n' = reset_backoff(bo_n, reset_task.seq)
    /\ consec' = IF reset_task.seq = bo_n THEN 0 ELSE consec
    /\ last_op' = IF reset_task.seq = bo_n THEN "reset" ELSE "stale_reset"
    /\ was_reset' = (was_reset \/ reset_task.seq = bo_n)
    /\ reset_task' = [reset_task EXCEPT !.state = "fired"]
    /\ reset_fired' = TRUE
    /\ UNCHANGED <<wiz_vars, bo_max, wait_time, next_result, sup_rest>>

(* wait_time seconds pass while run() executes *)
Elapse ==
    /\ pc \in SessionPcs
    /\ ~due
    /\ due' = TRUE
    /\ UNCHANGED <<wiz_vars, bo_vars, reset_task, pc, path, exc, exit_code, exit_kind, conn,
                   tasks, pending, state_writes, loop_closed, reset_fired>>

(* an event handler or the client spawns a task while the client is served *)
TaskSpawn ==
    /\ pc \in {"login", "connect", "close"}
    /\ \E t \in TaskIds :
          /\ tasks[t] = "absent"
          /\ tasks' = [tasks EXCEPT ![t] = "pending"]
    /\ UNCHANGED <<wiz_vars, bo_vars, reset_task, due, pc, path, exc, exit_code, exit_kind, conn,
                   pending, state_writes, loop_closed, reset_fired>>

(* a task runs to its end on the running loop *)
TaskFinish ==
    /\ pc \in LoopRunningPcs
    /\ \E t \in TaskIds :
          /\ tasks[t] = "pending"
          /\ tasks' = [tasks EXCEPT ![t] = "finished"]
    /\ UNCHANGED <<wiz_vars, bo_vars, reset_task, due, pc, path, exc, exit_code, exit_kind, conn,
                   pending, state_writes, loop_closed, reset_fired>>

(* a cancelled task receives CancelledError and ends, with that error or    *)
(* with another one raised while it unwinds                                 *)
TaskCancelled ==
    /\ pc \in LoopRunningPcs
    /\ \E t \in TaskIds :
          /\ tasks[t] = "cancelling"
          /\ tasks' = [tasks EXCEPT ![t] = "cancelled"]
    /\ UNCHANGED <<wiz_vars, bo_vars, reset_task, due, pc, path, exc, exit_code, exit_kind, conn,
                   pending, state_writes, loop_closed, reset_fired>>

NextSupervisor ==
    \/ SupSchedule \/ RunSetup \/ RunLogin \/ RunConnect \/ RunClose
    \/ RunCancelTasks \/ RunGather \/ RunWriteState
    \/ SupCancelReset \/ SupBackoffNext \/ SupSleep \/ SupExcept \/ SupFinally
    \/ ResetFires \/ Elapse \/ TaskSpawn \/ TaskFinish \/ TaskCancelled

SpecSupervisor == InitSupervisor /\ [][NextSupervisor]_vars

(* The supervisor is sequential code and keeps running; a session ends.     *)
FairSupervisor == SpecSupervisor /\ WF_vars(NextSupervisor)

----------------------------------------------------------------------------
(* The WizardManager, cog/projects/wizard.py:75-186.  Its coroutines run on  *)
(* one event loop: a step of a handler runs from a call or from the end of   *)
(* an awaited bot.send_message() to the next await or to the return.  A      *)
(* send may fail (the member cannot be messaged).  process_answer is an      *)
(* ordinary function and runs in one step.                                   *)

Event(op, u, outcome, sent, kind, lost) ==
    [op |-> op, user |-> u, outcome |-> outcome, sent |-> sent, kind |-> kind,
     lost |-> lost, text |-> <<>>, ret |-> <<>>]

(* The coroutines in progress are told apart only by what they hold, so hs  *)
(* is the bag of their records.  A new one can start while fewer than       *)
(* MaxHandlers are in progress.                                             *)
CanStart == BagCardinality(hs) < MaxHandlers
Started(b, c) == b (+) SetToBag({c})
Finished(b, c) == b (-) SetToBag({c})
Resumed(b, c, d) == Started(Finished(b, c), d)

(* a suspended coroutine: its position, its member and the kind it works   *)
(* on (wiz_name)                                                            *)
Suspended(op, u, at, kind) ==
    [op |-> op, user |-> u, pc |-> at, kind |-> kind, lost |-> FALSE]

(* history: the wizard a suspended create inserted for u has been removed *)
LostIfCreator(c, u) ==
    IF c.op \in {"create_new", "create_edit"} /\ c.user = u
        THEN [c EXCEPT !.lost = TRUE]
        ELSE c
MarkLost(b, u) == BagOfAll(LAMBDA c : LostIfCreator(c, u), b)

InitWizard ==
    /\ IdleWizardManager
    /\ wizard_keys \in KeyLists
    /\ bo_max = SupervisorMaxAttempts
    /\ bo_n = 0
    /\ wait_time = ZeroWait
    /\ next_result = "none"
    /\ consec = 0
    /\ last_op = "init"
    /\ was_reset = FALSE
    /\ reset_task = NoHandle
    /\ due = FALSE
    /\ pc = "idle"
    /\ path = "none"
    /\ exc = "none"
    /\ exit_code = OK
    /\ exit_kind = "running"
    /\ conn = "none"
    /\ tasks = [t \in TaskIds |-> "absent"]
    /\ pending = {}
    /\ state_writes = 0
    /\ loop_closed = 0
    /\ reset_fired = FALSE

(* a creator without the has_open_wizard test *)
CreateCall_unchecked(u, op, kind) ==
    /\ CanStart
    /\ wizards' = [wizards EXCEPT ![kind] = With(@, u, NewWizard(kind))]
    /\ hs' = Started(hs, Suspended(op, u, "send_start", kind))
    /\ ev' = Event(op, u, "suspended", "none", kind, FALSE)
    /\ UNCHANGED <<wizard_keys, bo_vars, sup_vars>>

(* create_new_wizard / create_edit_wizard up to the first await,            *)
(* wizard.py:119-126 and 134-143                                            *)
CreateCall(u, op, kind) ==
    /\ CanStart
    /\ IF has_open_wizard(wizards, u)
          THEN /\ ev' = Event(op, u, "WizardAlreadyOpen", "none", "none", FALSE)
               /\ UNCHANGED <<wizards, hs>>
          ELSE /\ wizards' = [wizards EXCEPT ![kind] = With(@, u, NewWizard(kind))]
               /\ hs' = Started(hs, Suspended(op, u, "send_start", kind))
               /\ ev' = Event(op, u, "suspended", "none", kind, FALSE)
    /\ UNCHANGED <<wizard_keys, bo_vars, sup_vars>>

(* wizard.py:118-126 *)
CreateNewWizardCall == \E u \in Users : CreateCall(u, "create_new", "new")

(* wizard.py:132-143 *)
CreateEditWizardCall == \E u \in Users : CreateCall(u, "create_edit", "edit")

(* the except clause of both creators, wizard.py:128-130 and 145-147 *)
CreateFails(c, outcome, sent) ==
    /\ wizards' = CancelOnFailure(wizards, c.user)
    /\ hs' = Finished(hs, c)
    /\ ev' = Event(c.op, c.user, outcome, sent, c.kind, c.lost)

(* the send of the start message ends; send_question runs to its await,     *)
(* wizard.py:126-127, 143-144 and 115-116                                   *)
CreateResumeStart ==
    \E c \in BagToSet(hs) :
        /\ c.pc = "send_start"
        /\ \/ CreateFails(c, "SendError", "none")
           \/ /\ QuestionFor(wizards, c.user) # "ok"
              /\ CreateFails(c, QuestionFor(wizards, c.user), "start")
           \/ /\ QuestionFor(wizards, c.user) = "ok"
              /\ hs' = Resumed(hs, c, [c EXCEPT !.pc = "send_question"])
              /\ ev' = Event(c.op, c.user, "suspended", "start", c.kind, c.lost)
              /\ UNCHANGED wizards
        /\ UNCHANGED <<wizard_keys, bo_vars, sup_vars>>

(* the send of the first question ends, wizard.py:127 and 144 *)
CreateResumeQuestion ==
    \E c \in BagToSet(hs) :
        /\ c.pc = "send_question"
        /\ \/ CreateFails(c, "SendError", "none")
           \/ /\ hs' = Finished(hs, c)
              /\ ev' = Event(c.op, c.user, "ok", "question", c.kind, c.lost)
              /\ UNCHANGED wizards
        /\ UNCHANGED <<wizard_keys, bo_vars, sup_vars>>

(* a process_answer that drops the wizard when answer() raises *)
ProcessAnswer_drops ==
    \E u \in Users, text \in Texts :
        LET kind == get_wizard_for(wizards, u) IN
        /\ IF kind = "none"
              THEN /\ ev' = [Event("process_answer", u, "NoActiveWizard", "none", "none",
                                   FALSE) EXCEPT !.text = <<text>>]
                   /\ UNCHANGED wizards
              ELSE LET r == answer(wizards[kind][u], text) IN
                   /\ wizards' = IF r.outcome = "ok"
                                    THEN [wizards EXCEPT ![kind][u] = r.w]
                                    ELSE [wizards EXCEPT ![kind] = Without(@, u)]
                   /\ ev' = [Event("process_answer", u, r.outcome, "none", kind, FALSE)
                                EXCEPT !.text = <<text>>]
        /\ UNCHANGED <<wizard_keys, hs, bo_vars, sup_vars>>

(* a process_answer that finds the wizard but does not give it the text *)
ProcessAnswer_discards ==
    \E u \in Users, text \in Texts :
        LET kind == get_wizard_for(wizards, u) IN
        /\ ev' = [Event("process_answer", u,
                        IF kind = "none" THEN "NoActiveWizard" ELSE "ok",
                        "none", kind, FALSE) EXCEPT !.text = <<text>>]
        /\ UNCHANGED <<wizards, wizard_keys, hs, bo_vars, sup_vars>>

(* process_answer, wizard.py:149-155 *)
ProcessAnswer ==
    \E u \in Users, text \in Texts :
        LET kind == get_wizard_for(wizards, u) IN
        /\ IF kind = "none"
              THEN /\ ev' = [Event("process_answer", u, "NoActiveWizard", "none", "none",
                                   FALSE) EXCEPT !.text = <<text>>]
                   /\ UNCHANGED wizards
              ELSE LET r == answer(wizards[kind][u], text) IN
                   /\ wizards' = [wizards EXCEPT ![kind][u] = r.w]
                   /\ ev' = [Event("process_answer", u, r.outcome, "none", kind, FALSE)
                                EXCEPT !.text = <<text>>]
        /\ UNCHANGED <<wizard_keys, hs, bo_vars, sup_vars>>

(* a close_wizard without the is_done test *)
CloseWizardCall_unchecked ==
    \E u \in Users :
        LET kind == get_wizard_for(wizards, u) IN
        /\ CanStart
        /\ IF kind = "none"
              THEN /\ ev' = Event("close", u, "NoActiveWizard", "none", "none", FALSE)
                   /\ UNCHANGED <<wizards, hs>>
              ELSE /\ wizards' = [wizards EXCEPT ![kind] = Without(@, u)]
                   /\ hs' = Started(MarkLost(hs, u), Suspended("close", u, "send_end", kind))
                   /\ ev' = [Event("close", u, "suspended", "none", kind, FALSE)
                                EXCEPT !.ret = <<kind, wizards[kind][u]>>]
        /\ UNCHANGED <<wizard_keys, bo_vars, sup_vars>>

(* a close_wizard that leaves the wizard in its mapping while it sends *)
CloseWizardCall_keeps ==
    \E u \in Users :
        LET kind == get_wizard_for(wizards, u) IN
        /\ CanStart
        /\ IF kind = "none"
              THEN /\ ev' = Event("close", u, "NoActiveWizard", "none", "none", FALSE)
                   /\ UNCHANGED <<wizards, hs>>
           ELSE IF ~is_done(wizards[kind][u])
              THEN /\ ev' = Event("close", u, "WizardNotDone", "none", kind, FALSE)
                   /\ UNCHANGED <<wizards, hs>>
           ELSE /\ UNCHANGED wizards
                /\ hs' = Started(hs, Suspended("close", u, "send_end", kind))
                /\ ev' = [Event("close", u, "suspended", "none", kind, FALSE)
                             EXCEPT !.ret = <<kind, wizards[kind][u]>>]
        /\ UNCHANGED <<wizard_keys, bo_vars, sup_vars>>

(* close_wizard up to its await, wizard.py:157-162 *)
CloseWizardCall ==
    \E u \in Users :
        LET kind == get_wizard_for(wizards, u) IN
        /\ CanStart
        /\ IF kind = "none"
              THEN /\ ev' = Event("close", u, "NoActiveWizard", "none", "none", FALSE)
                   /\ UNCHANGED <<wizards, hs>>
           ELSE IF ~is_done(wizards[kind][u])
              THEN /\ ev' = Event("close", u, "WizardNotDone", "none", kind, FALSE)
                   /\ UNCHANGED <<wizards, hs>>
           ELSE /\ wizards' = [wizards EXCEPT ![kind] = Without(@, u)]
                /\ hs' = Started(MarkLost(hs, u), Suspended("close", u, "send_end", kind))
                /\ ev' = [Event("close", u, "suspended", "none", kind, FALSE)
                             EXCEPT !.ret = <<kind, wizards[kind][u]>>]
        /\ UNCHANGED <<wizard_keys, bo_vars, sup_vars>>

(* the send of end_msg ends and close_wizard returns (wiz_name, wizard),    *)
(* wizard.py:162-163                                                        *)
CloseWizardResume ==
    \E c \in BagToSet(hs) :
        /\ c.pc = "send_end"
        /\ hs' = Finished(hs, c)
        /\ \/ ev' = Event("close", c.user, "SendError", "none", c.kind, FALSE)
           \/ ev' = Event("close", c.user, "ok", "end", c.kind, FALSE)
        /\ UNCHANGED <<wizards, wizard_keys, bo_vars, sup_vars>>

(* a cancel_wizards that sends the notice but leaves the wizard in place *)
CancelFrom_keeps(b, u, i, sent) ==
    LET found == {j \in i..Len(Kinds) : u \in DOMAIN wizards[Kinds[j]]} IN
    IF found = {}
        THEN /\ hs' = b
             /\ ev' = Event("cancel", u, "ok", sent, "none", FALSE)
             /\ UNCHANGED wizards
        ELSE LET j == CHOOSE x \in found : \A y \in found : x <= y IN
             /\ UNCHANGED wizards
             /\ hs' = Started(b, Suspended("cancel", u, "send_cancel", Kinds[j]))
             /\ ev' = Event("cancel", u, "suspended", sent, Kinds[j], FALSE)

(* the loop of cancel_wizards from kind number i on, wizard.py:168-180: up  *)
(* to the next await, or to the return when no mapping is left; b is the    *)
(* bag of the other coroutines                                              *)
CancelFrom(b, u, i, sent) ==
    LET found == {j \in i..Len(Kinds) : u \in DOMAIN wizards[Kinds[j]]} IN
    IF found = {}
        THEN /\ hs' = b
             /\ ev' = Event("cancel", u, "ok", sent, "none", FALSE)
             /\ UNCHANGED wizards
        ELSE LET j == CHOOSE x \in found : \A y \in found : x <= y IN
             /\ wizards' = [wizards EXCEPT ![Kinds[j]] = Without(@, u)]
             /\ hs' = Started(MarkLost(b, u), Suspended("cancel", u, "send_cancel", Kinds[j]))
             /\ ev' = Event("cancel", u, "suspended", sent, Kinds[j], FALSE)

(* a call of cancel_wizards, wizard.py:167-180 *)
CancelWizardsCall ==
    \E u \in Users :
        /\ CanStart
        /\ CancelFrom(hs, u, 1, "none")
        /\ UNCHANGED <<wizard_keys, bo_vars, sup_vars>>

KindIndex(kind) == CHOOSE i \in 1..Len(Kinds) : Kinds[i] = kind

(* the notice sent for a wizard of the kind removed, wizard.py:175-178 *)
NoticeFor(kind) == IF kind = "new" THEN "cancel_new" ELSE "cancel_edit"

(* the send of a cancellation notice ends; the loop goes on with the next   *)
(* kind, wizard.py:175-180                                                  *)
CancelWizardsResume ==
    \E c \in BagToSet(hs) :
        /\ c.pc = "send_cancel"
        /\ \/ /\ hs' = Finished(hs, c)
              /\ ev' = Event("cancel", c.user, "SendError", "none", c.kind, FALSE)
              /\ UNCHANGED wizards
           \/ CancelFrom(Finished(hs, c), c.user, KindIndex(c.kind) + 1, NoticeFor(c.kind))
        /\ UNCHANGED <<wizard_keys, bo_vars, sup_vars>>

Next ==
    \/ CreateNewWizardCall \/ CreateEditWizardCall
    \/ CreateResumeStart \/ CreateResumeQuestion
    \/ ProcessAnswer
    \/ CloseWizardCall \/ CloseWizardResume
    \/ CancelWizardsCall \/ CancelWizardsResume

Init == InitWizard

Spec == Init /\ [][Next]_vars

SpecWizard == Spec

----------------------------------------------------------------------------
(* WizardManager.from_dict, wizard.py:76-92: the manager built at startup   *)
(* from the persisted state.  An entry is what ProjectWizard.to_dict wrote: *)
(* owner, creation time, current_index and the raw answers; `complete`      *)
(* tells whether all its fields are there.                                  *)

(* the user ids of the persisted entries *)
StoredIds == {"U", "V"}

NoRaw == [k \in KeySet |-> Absent]

(* entries: untouched; two questions answered; the same with a genre that   *)
(* is no longer known; one that lacks a field                               *)
EntryFresh    == [complete |-> TRUE, current_index |-> 0, raw_answers |-> NoRaw]
EntryAnswered == [complete |-> TRUE, current_index |-> 2,
                  raw_answers |-> [NoRaw EXCEPT !["title"] = <<"good">>,
                                                !["genre"] = <<"good">>]]
EntryStale    == [complete |-> TRUE, current_index |-> 2,
                  raw_answers |-> [NoRaw EXCEPT !["title"] = <<"good">>,
                                                !["genre"] = <<"bad">>]]
EntryMissing  == [complete |-> FALSE, current_index |-> 0, raw_answers |-> NoRaw]
StoredEntries == {EntryFresh, EntryAnswered, EntryStale, EntryMissing}

StoredMaps == UNION {[ids -> StoredEntries] : ids \in SUBSET StoredIds}
StoredData == [KindSet -> StoredMaps]

(* the keys an entry has passed: the first current_index keys *)
PassedKeys(d) == {wizard_keys[i] : i \in 1..d.current_index}

(* ProjectWizard.from_dict(d): reading a field the entry lacks raises       *)
(* KeyError; the stored raw answers of the keys passed are validated again, *)
(* and one the validator rejects raises ValueError (the restore error); a   *)
(* key passed without a stored raw answer was skipped and is passed over    *)
Wizard_from_dict_raises(d) ==
    IF ~d.complete THEN "KeyError"
    ELSE IF \E k \in PassedKeys(d) :
               d.raw_answers[k] # Absent /\ ~Valid(k, d.raw_answers[k][1])
        THEN "ValueError"
    ELSE "none"

(* the wizard ProjectWizard.from_dict(d) returns when it does not raise *)
Wizard_from_dict(d) ==
    [current_index |-> d.current_index,
     answers       |-> [k \in KeySet |->
                          IF k \in PassedKeys(d) /\ d.raw_answers[k] # Absent
                             THEN Validated(k, d.raw_answers[k][1]) ELSE Absent],
     raw_answers   |-> [k \in KeySet |->
                          IF k \in PassedKeys(d) THEN d.raw_answers[k] ELSE Absent],
     opts          |-> keys_optional \cap KeysOf(wizard_keys)]

(* the exceptions the loops of from_dict let through: `except ValueError`   *)
(* catches ValueError only, wizard.py:82 and 90                             *)
Propagates(raised) == raised \notin {"none", "ValueError"}

(* a from_dict that leaves the restored edit wizards their default opts *)
Loaded_default_opts(data, kind) ==
    [uid \in {x \in DOMAIN data[kind] : Wizard_from_dict_raises(data[kind][x]) = "none"} |->
        Wizard_from_dict(data[kind][uid])]

(* the entries of a kind that from_dict stores, wizard.py:79-91; the edit   *)
(* wizards get opts = ProjectWizard.question_keys, wizard.py:89             *)
Loaded(data, kind) ==
    [uid \in {x \in DOMAIN data[kind] : Wizard_from_dict_raises(data[kind][x]) = "none"} |->
        IF kind = "edit"
           THEN [Wizard_from_dict(data[kind][uid]) EXCEPT !.opts = KeysOf(wizard_keys)]
           ELSE Wizard_from_dict(data[kind][uid])]

(* WizardManager.from_dict(bot, data): the exception it ends with ("none"   *)
(* when it returns) and the mappings of the manager it returns              *)
from_dict(data) ==
    LET raising == {Wizard_from_dict_raises(data[k][uid]) :
                        <<k, uid>> \in {p \in KindSet \X StoredIds : p[2] \in DOMAIN data[p[1]]}}
        through == {r \in raising : Propagates(r)}
    IN  IF through # {}
           THEN [raised |-> CHOOSE r \in through : TRUE, wizards |-> EmptyManager]
           ELSE [raised |-> "none", wizards |-> [k \in KindSet |-> Loaded(data, k)]]

(* ProjectWizard.to_dict(): the position and the raw answers are           *)
(* persisted, the validated values and opts are not                         *)
Wizard_to_dict(w) ==
    [complete |-> TRUE, current_index |-> w.current_index, raw_answers |-> w.raw_answers]

(* a to_dict that persists the 'new' wizards only *)
to_dict_new_only(wz) ==
    [k \in KindSet |->
        [uid \in (IF k = "new" THEN DOMAIN wz[k] ELSE {}) |-> Wizard_to_dict(wz[k][uid])]]

(* WizardManager.to_dict(), wizard.py:182-186 *)
to_dict(wz) ==
    [k \in KindSet |-> [uid \in DOMAIN wz[k] |-> Wizard_to_dict(wz[k][uid])]]

(* the bot starts: the manager is built from the persisted data before any  *)
(* command is handled; when from_dict raises there is no manager            *)
FromDict ==
    /\ ev = NoEvent
    /\ \E data \in StoredData :
          LET r == from_dict(data) IN
          /\ wizards' = r.wizards
          /\ ev' = Event("from_dict", NoUser, IF r.raised = "none" THEN "ok" ELSE r.raised,
                         "none", "none", FALSE) @@ [data |-> data]
    /\ UNCHANGED <<wizard_keys, hs, bo_vars, sup_vars>>

(* a manager restored at startup, whose members go on answering and close   *)
(* their wizards                                                            *)
NextRestored == FromDict \/ ProcessAnswer \/ CloseWizardCall \/ CloseWizardResume

SpecRestored == InitWizard /\ [][NextRestored]_vars

(* The bot is restarted while no coroutine of the manager is in progress:   *)
(* the state is persisted with to_dict() and the manager of the new process *)
(* is built from it by from_dict(), wizard.py:182-186 and 76-92.            *)
Restart ==
    /\ hs = EmptyBag
    /\ LET r == from_dict(to_dict(wizards)) IN
          /\ wizards' = r.wizards
          /\ ev' = Event("restart", NoUser, IF r.raised = "none" THEN "ok" ELSE r.raised,
                         "none", "none", FALSE)
    /\ UNCHANGED <<wizard_keys, hs, bo_vars, sup_vars>>

(* a manager in use that is persisted and restored across restarts *)
NextLifecycle == Next \/ Restart

SpecLifecycle == InitWizard /\ [][NextLifecycle]_vars

----------------------------------------------------------------------------
(*          Properties of a restored WizardManager (SpecRestored)           *)

(* an entry from_dict is to load: all its fields are there and its raw      *)
(* answers validate                                                         *)
WellFormed(d) ==
    /\ d.complete
    /\ \A k \in PassedKeys(d) :
          d.raw_answers[k] # Absent => Valid(k, d.raw_answers[k][1])

C20_LoadedAtMostOneMapping ==
    \A uid \in StoredIds :
        ~(uid \in DOMAIN wizards["new"] /\ uid \in DOMAIN wizards["edit"])

----------------------------------------------------------------------------
(*     Properties of a WizardManager across restarts (SpecLifecycle)        *)

(* the keys of a wizard that hold a validated value *)
AnsweredKeys(w) == {k \in KeySet : w.answers[k] # Absent}

----------------------------------------------------------------------------
(*                    Properties of the WizardManager (Spec)                *)

Creators == {"create_new", "create_edit"}

(* C1: in every state reachable from an empty manager by interleavings of   *)
(* the creators, process_answer, close_wizard and cancel_wizards, no member *)
(* is in both the 'new' and the 'edit' mapping.                             *)
C1_AtMostOneMapping ==
    \A u \in Users : ~(u \in DOMAIN wizards["new"] /\ u \in DOMAIN wizards["edit"])

(* an edit wizard was opened for a member while a create_new_wizard for the *)
(* same member, whose wizard has been cancelled, is still awaiting a send   *)
C1_Witness ==
    \E u \in Users, c \in BagToSet(hs) :
        /\ u \in DOMAIN wizards["edit"]
        /\ c.op = "create_new"
        /\ c.user = u
        /\ c.lost

(* C2: when a send fails in create_new_wizard or create_edit_wizard, the    *)
(* wizard just inserted is removed: once the error has reached the caller   *)
(* the member has no open wizard.                                           *)
C2_FailedCreateLeavesNoWizard ==
    (ev.op \in Creators /\ ev.outcome = "SendError")
        => ~has_open_wizard(wizards, ev.user)

(* C3, as stated: after create_new_wizard(u) has succeeded,                 *)
(* has_open_wizard(u) is true.                                              *)
C3_CreatedIsOpen ==
    (ev.op = "create_new" /\ ev.outcome = "ok") => has_open_wizard(wizards, ev.user)

(* the step just taken is the call of a creator *)
IsCreateCall(e) ==
    /\ e.op \in Creators
    /\ e.outcome = "WizardAlreadyOpen" \/ (e.outcome = "suspended" /\ e.sent = "none")

(* C3, amended: when a creator succeeds its wizard is in its mapping unless *)
(* a cancel_wizards or close_wizard for the member removed it while the     *)
(* creator awaited a send; and a creator called for a member who has an     *)
(* open wizard of either kind fails with WizardAlreadyOpen, sends nothing   *)
(* and changes neither the mappings (so not the wizard's progress) nor any  *)
(* coroutine, while one called for a member without a wizard opens one.     *)
C3_SecondCreateRefused ==
    /\ []((ev.op \in Creators /\ ev.outcome = "ok" /\ ~ev.lost)
            => /\ ev.user \in DOMAIN wizards[ev.kind]
               /\ has_open_wizard(wizards, ev.user))
    /\ [][IsCreateCall(ev')
            => IF has_open_wizard(wizards, ev'.user)
                  THEN /\ ev'.outcome = "WizardAlreadyOpen"
                       /\ ev'.sent = "none"
                       /\ wizards' = wizards
                       /\ hs' = hs
                  ELSE /\ ev'.outcome = "suspended"
                       /\ has_open_wizard(wizards', ev'.user)]_vars

(* create_edit_wizard was refused for a member whose 'new' wizard has       *)
(* already been answered in part                                            *)
C3_Witness ==
    /\ ev.op = "create_edit"
    /\ ev.outcome = "WizardAlreadyOpen"
    /\ ev.user \in DOMAIN wizards["new"]
    /\ wizards["new"][ev.user].current_index > 0

(* the step just taken is the call of close_wizard *)
IsCloseCall(e) ==
    /\ e.op = "close"
    /\ e.outcome \in {"NoActiveWizard", "WizardNotDone", "suspended"}

(* the mappings other than kind are the same in wz1 and wz2 *)
OthersUnchanged(wz1, wz2, kind) == \A k \in KindSet \ {kind} : wz1[k] = wz2[k]

(* C12: close_wizard called for a member whose wizard is not done fails     *)
(* with WizardNotDone, starts no send and leaves both mappings, so the      *)
(* wizard and its progress, as they were; called when the wizard is done it *)
(* takes the wizard out of the mapping that held it, binds (kind, wizard)   *)
(* with that mapping's kind, and returns it with that kind once the         *)
(* completion message has been sent.                                        *)
C12_CloseRequiresDone ==
    /\ [][IsCloseCall(ev')
            => LET u == ev'.user
                   kind == get_wizard_for(wizards, u)
               IN  IF kind = "none"
                      THEN /\ ev'.outcome = "NoActiveWizard"
                           /\ wizards' = wizards /\ hs' = hs
                   ELSE IF ~is_done(wizards[kind][u])
                      THEN /\ ev'.outcome = "WizardNotDone"
                           /\ ev'.sent = "none"
                           /\ ev'.ret = <<>>
                           /\ wizards' = wizards /\ hs' = hs
                   ELSE /\ ev'.outcome = "suspended"
                        /\ u \in DOMAIN wizards[kind]
                        /\ u \notin DOMAIN wizards'[kind]
                        /\ OthersUnchanged(wizards, wizards', kind)
                        /\ ev'.ret = <<kind, wizards[kind][u]>>
                        /\ BagCardinality(hs') = BagCardinality(hs) + 1]_vars
    /\ [][(ev'.op = "close" /\ ev'.outcome = "ok")
            => /\ wizards' = wizards
               /\ ev'.sent = "end"
               /\ \E c \in BagToSet(hs) :
                     /\ c.op = "close" /\ c.user = ev'.user /\ c.kind = ev'.kind
                     /\ hs' = Finished(hs, c)]_vars

(* close_wizard was refused for an edit wizard answered in part, which is   *)
(* still in its mapping                                                     *)
C12_Witness ==
    /\ ev.op = "close"
    /\ ev.outcome = "WizardNotDone"
    /\ ev.user \in DOMAIN wizards["edit"]
    /\ wizards["edit"][ev.user].current_index > 0
    /\ ~is_done(wizards["edit"][ev.user])

(* the open wizards: <<kind, member, wizard>> *)
OpenWizards ==
    UNION {{<<k, u, wizards[k][u]>> : u \in DOMAIN wizards[k]} : k \in KindSet}

(* the key a wizard that is not done asks for *)
CurrentKey(w) == wizard_keys[w.current_index + 1]

(* the answers of w are exactly the validated forms of the raw answers it   *)
(* stores for its first current_index keys; a key without an answer among   *)
(* them is one the wizard lets skip                                         *)
AnswersValidated(w) ==
    /\ w.current_index \in 0..Len(wizard_keys)
    /\ \A k \in KeySet :
          IF \E i \in 1..w.current_index : wizard_keys[i] = k
             THEN IF w.raw_answers[k] = Absent
                     THEN w.answers[k] = Absent /\ k \in w.opts
                     ELSE /\ Valid(k, w.raw_answers[k][1])
                          /\ w.answers[k] = Validated(k, w.raw_answers[k][1])
             ELSE w.answers[k] = Absent /\ w.raw_answers[k] = Absent

(* C13: every process_answer given text the current key's validator accepts *)
(* stores the validated text under that key (or, for the skip token on a    *)
(* key that may be skipped, nothing) and moves current_index on by one, so  *)
(* after as many such answers as there are keys the wizard is done with     *)
(* current_index equal to the number of keys; the tuple close_wizard then   *)
(* returns holds the mapping's kind and the wizard, whose answers are       *)
(* exactly the validated answers: for the keys [title, genre], the          *)
(* validated title and genre and nothing else.                              *)
C13_AnsweredInOrderIsDone ==
    /\ [](\A o \in OpenWizards : AnswersValidated(o[3]))
    /\ [][(ev'.op = "process_answer" /\ ev'.kind # "none")
            => LET u == ev'.user
                   kind == ev'.kind
                   w == wizards[kind][u]
                   w2 == wizards'[kind][u]
                   text == ev'.text[1]
               IN  /\ kind = get_wizard_for(wizards, u)
                   /\ OthersUnchanged(wizards, wizards', kind)
                   /\ (~is_done(w) /\ Valid(CurrentKey(w), text))
                        => /\ ev'.outcome = "ok"
                           /\ w2.current_index = w.current_index + 1
                           /\ (is_done(w2) <=> (w2.current_index = Len(wizard_keys)))
                           /\ \A k \in KeySet \ {CurrentKey(w)} :
                                 w2.answers[k] = w.answers[k]
                           /\ \/ w2.answers[CurrentKey(w)] = Validated(CurrentKey(w), text)
                              \/ /\ text = SkipToken /\ CurrentKey(w) \in w.opts
                                 /\ w2.answers[CurrentKey(w)] = Absent]_vars
    /\ []((ev.op = "close" /\ ev.ret # <<>>)
            => /\ ev.ret[1] = ev.kind
               /\ is_done(ev.ret[2])
               /\ ev.ret[2].current_index = Len(wizard_keys)
               /\ AnswersValidated(ev.ret[2])
               /\ (ev.ret[1] = "new" /\ wizard_keys = ScenarioKeys)
                    => /\ ev.ret[2].raw_answers["title"] # Absent
                       /\ ev.ret[2].answers["genre"] = Validated("genre", "good")
                       /\ \A k \in KeySet \ {"title", "genre"} :
                             ev.ret[2].answers[k] = Absent)

(* the scenario: a 'new' wizard with the keys [title, genre] was answered   *)
(* with a valid title and a valid genre and close_wizard has taken it       *)
C13_Witness ==
    /\ wizard_keys = ScenarioKeys
    /\ ev.op = "close"
    /\ ev.outcome = "suspended"
    /\ ev.ret # <<>>
    /\ ev.ret[1] = "new"
    /\ ev.ret[2].current_index = 2
    /\ ev.ret[2].answers["title"] = Validated("title", "good")
    /\ ev.ret[2].answers["genre"] = Validated("genre", "good")
    /\ ~has_open_wizard(wizards, ev.user)

(* answer(text) on w runs the validator of the current key: w is not done   *)
(* and text is not the skip token on a key w lets skip                      *)
ValidatorRuns(w, text) ==
    /\ ~is_done(w)
    /\ ~(text = SkipToken /\ CurrentKey(w) \in w.opts)

(* C15: when process_answer gives the wizard a text its current key's       *)
(* validator is run on and rejects, the validation error reaches the caller *)
(* and nothing changes: not the wizard's current_index, answers and         *)
(* raw_answers, not the mappings, no coroutine; the question to ask is the  *)
(* same one.  When the member has no open wizard process_answer fails with  *)
(* NoActiveWizard and changes nothing.                                      *)
C15_RejectedAnswerChangesNothing ==
    [][ev'.op = "process_answer"
          => LET u == ev'.user
                 kind == get_wizard_for(wizards, u)
                 text == ev'.text[1]
             IN  IF kind = "none"
                    THEN /\ ev'.outcome = "NoActiveWizard"
                         /\ wizards' = wizards /\ hs' = hs
                    ELSE /\ hs' = hs
                         /\ ev'.outcome \in {"ok", "ValidationError", "WizardDone"}
                         /\ (ValidatorRuns(wizards[kind][u], text)
                              /\ ~Valid(CurrentKey(wizards[kind][u]), text))
                                => /\ ev'.outcome = "ValidationError"
                                   /\ wizards' = wizards
                                   /\ CurrentKey(wizards'[kind][u])
                                         = CurrentKey(wizards[kind][u])
                         /\ ev'.outcome = "ValidationError"
                                => /\ wizards' = wizards
                                   /\ ~Valid(CurrentKey(wizards[kind][u]), text)]_vars

(* a rejected answer to the second question of a wizard, which still asks   *)
(* that question                                                            *)
C15_Witness ==
    /\ ev.op = "process_answer"
    /\ ev.outcome = "ValidationError"
    /\ ev.text = <<"bad">>
    /\ ev.kind = "new"
    /\ ev.user \in DOMAIN wizards["new"]
    /\ wizards["new"][ev.user].current_index = 1
    /\ wizards["new"][ev.user].answers["genre"] = Absent

(* the step just taken is the call of cancel_wizards *)
IsCancelCall(e) ==
    /\ e.op = "cancel"
    /\ e.sent = "none"
    /\ e.outcome \in {"ok", "suspended"}

(* the kinds whose mapping lost u between wz1 and wz2 *)
RemovedKinds(wz1, wz2, u) ==
    {k \in KindSet : u \in DOMAIN wz1[k] /\ u \notin DOMAIN wz2[k]}

(* C14: a cancel_wizards that runs from its call to its return with no step *)
(* of another coroutine in between leaves the member without an open        *)
(* wizard, whichever mapping held it; called for a member without an open   *)
(* wizard it returns at once, changing nothing and sending nothing; and     *)
(* each wizard it removes is followed by the send of one notice, the notice *)
(* of that wizard's kind, while a step that removes nothing starts no send. *)
C14_CancelRemovesAndNotifies ==
    /\ [][(ev.op = "cancel" /\ ev.outcome = "suspended"
            /\ ev'.op = "cancel" /\ ev'.user = ev.user /\ ev'.outcome = "ok")
            => ~has_open_wizard(wizards', ev'.user)]_vars
    /\ [][(IsCancelCall(ev') /\ ~has_open_wizard(wizards, ev'.user))
            => /\ ev'.outcome = "ok"
               /\ wizards' = wizards
               /\ hs' = hs]_vars
    /\ [][(IsCancelCall(ev') /\ has_open_wizard(wizards, ev'.user))
            => ev'.outcome = "suspended"]_vars
    /\ [][ev'.op = "cancel"
            => LET u == ev'.user
                   removed == RemovedKinds(wizards, wizards', u)
               IN  /\ Cardinality(removed) <= 1
                   /\ removed # {} <=> ev'.outcome = "suspended"
                   /\ ev'.outcome = "suspended"
                        => /\ removed = {ev'.kind}
                           /\ OthersUnchanged(wizards, wizards', ev'.kind)
                           /\ wizards'[ev'.kind] = Without(wizards[ev'.kind], u)
                           /\ BagIn(Suspended("cancel", u, "send_cancel", ev'.kind), hs')
                   /\ ev'.sent # "none"
                        => \E c \in BagToSet(hs) :
                              /\ c.op = "cancel" /\ c.pc = "send_cancel" /\ c.user = u
                              /\ c.kind = "new" => ev'.sent = "cancel_new"
                              /\ c.kind = "edit" => ev'.sent = "cancel_edit"
                              /\ CopiesIn(c, hs') = CopiesIn(c, hs) - 1
                                 \/ (ev'.outcome = "suspended" /\ ev'.kind = c.kind)]_vars

(* cancel_wizards has returned after removing an edit wizard answered in    *)
(* part and sending the notice for edit wizards                             *)
C14_Witness ==
    /\ ev.op = "cancel"
    /\ ev.outcome = "ok"
    /\ ev.sent = "cancel_edit"
    /\ ~has_open_wizard(wizards, ev.user)
    /\ hs = EmptyBag

(* the close_wizard coroutines awaiting the send of the completion message *)
ClosingFor(b, u) == {c \in BagToSet(b) : c.op = "close" /\ c.user = u}

(* C18: a done wizard is consumed once.  The close_wizard call that finds   *)
(* it takes it out of its mapping in the same step, before its send, so     *)
(* under any interleaving a close_wizard called while the member has no     *)
(* wizard (another call holds it) fails with NoActiveWizard and takes       *)
(* nothing; a wizard taken never comes back (what enters a mapping is a new *)
(* wizard put there by a creator), each taking call returns or fails once;  *)
(* and while a done wizard is in its mapping process_answer changes neither *)
(* its answers nor its current_index.                                       *)
C18_DoneWizardConsumedOnce ==
    /\ [][(IsCloseCall(ev') /\ ev'.outcome = "suspended")
            => /\ ev'.ret # <<>>
               /\ ev'.ret[2] = wizards[ev'.ret[1]][ev'.user]
               /\ is_done(ev'.ret[2])
               /\ ~has_open_wizard(wizards', ev'.user)
               /\ hs' = Started(MarkLost(hs, ev'.user),
                                Suspended("close", ev'.user, "send_end", ev'.ret[1]))]_vars
    /\ [][(IsCloseCall(ev') /\ ~has_open_wizard(wizards, ev'.user))
            => /\ ev'.outcome = "NoActiveWizard"
               /\ ev'.ret = <<>>
               /\ wizards' = wizards /\ hs' = hs]_vars
    /\ [][(ev'.op = "close" /\ ev'.outcome \in {"ok", "SendError"})
            => /\ wizards' = wizards
               /\ \E c \in ClosingFor(hs, ev'.user) : hs' = Finished(hs, c)]_vars
    /\ [][ClosingFor(hs', ev'.user) # ClosingFor(hs, ev'.user) => ev'.op = "close"]_vars
    /\ [][\A k \in KindSet : \A u \in DOMAIN wizards'[k] :
            /\ u \notin DOMAIN wizards[k]
                 => wizards'[k][u] = NewWizard(k) /\ ev'.op \in Creators
            /\ (u \in DOMAIN wizards[k] /\ is_done(wizards[k][u]))
                 => wizards'[k][u] = wizards[k][u]]_vars
    /\ [][(ev'.op = "process_answer" /\ ev'.kind # "none"
            /\ is_done(wizards[ev'.kind][ev'.user]))
            => ev'.outcome = "WizardDone" /\ wizards' = wizards]_vars

(* a second close_wizard for the member failed with NoActiveWizard while    *)
(* the first, which took the wizard, is still sending                       *)
C18_Witness ==
    /\ ev.op = "close"
    /\ ev.outcome = "NoActiveWizard"
    /\ ClosingFor(hs, ev.user) # {}
    /\ ~has_open_wizard(wizards, ev.user)

(* C23: cancel_wizards removes only wizards that were open for the member   *)
(* when it was called.  At its call the member has one wizard at most (C1)  *)
(* and the call removes it before the first notice is sent; so once         *)
(* cancel_wizards has sent a notice, a wizard it finds was created while it *)
(* was suspended, and no step it takes after a notice removes a wizard of   *)
(* its member.                                                              *)
C23_CancelSparesLaterWizards ==
    [][(ev'.op = "cancel" /\ ev'.sent # "none")
        => \A k \in KindSet :
              ev'.user \in DOMAIN wizards[k] => ev'.user \in DOMAIN wizards'[k]]_vars

(* w2 is w moved on by one key with nothing stored *)
SkippedOver(w, w2) ==
    /\ w2.current_index = w.current_index + 1
    /\ w2.answers = w.answers
    /\ w2.raw_answers = w.raw_answers

(* C22: under SpecLifecycle, an edit wizard lets every key be skipped,      *)
(* whether create_edit_wizard made it or from_dict restored it at a         *)
(* restart: the skip token given to an edit wizard that is not done moves   *)
(* current_index on by one and stores nothing, whatever the current key.    *)
(* A 'new' wizard, created or restored, lets only the optional keys be      *)
(* skipped: on another key the skip token goes to the validator, which      *)
(* stores it as the answer or rejects it.                                   *)
C22_SkipTokenPerKind ==
    /\ [](\A u \in DOMAIN wizards["edit"] :
            LET w == wizards["edit"][u] IN
            /\ w.opts = KeysOf(wizard_keys)
            /\ ~is_done(w) => /\ answer(w, SkipToken).outcome = "ok"
                              /\ SkippedOver(w, answer(w, SkipToken).w))
    /\ [](\A u \in DOMAIN wizards["new"] :
            wizards["new"][u].opts = keys_optional \cap KeysOf(wizard_keys))
    /\ [][(ev'.op = "process_answer" /\ ev'.text = <<SkipToken>> /\ ev'.kind # "none")
            => LET u == ev'.user
                   kind == ev'.kind
                   w == wizards[kind][u]
                   w2 == wizards'[kind][u]
               IN  /\ kind = get_wizard_for(wizards, u)
                   /\ is_done(w) => ev'.outcome = "WizardDone" /\ w2 = w
                   /\ (~is_done(w) /\ (kind = "edit" \/ CurrentKey(w) \in keys_optional))
                        => ev'.outcome = "ok" /\ SkippedOver(w, w2)
                   /\ (~is_done(w) /\ kind = "new" /\ CurrentKey(w) \notin keys_optional)
                        => IF Valid(CurrentKey(w), SkipToken)
                              THEN /\ ev'.outcome = "ok"
                                   /\ w2.current_index = w.current_index + 1
                                   /\ w2.answers[CurrentKey(w)]
                                         = Validated(CurrentKey(w), SkipToken)
                              ELSE ev'.outcome = "ValidationError" /\ w2 = w]_vars

(* an edit wizard answered in part has just been restored by from_dict: its *)
(* current key, one a 'new' wizard requires, can be skipped                 *)
C22_Witness ==
    /\ ev.op = "restart"
    /\ \E u \in Users :
          /\ u \in DOMAIN wizards["edit"]
          /\ wizards["edit"][u].current_index = 1
          /\ wizards["edit"][u].answers["title"] = Validated("title", "good")
          /\ CurrentKey(wizards["edit"][u]) = "genre"
          /\ "genre" \notin keys_optional

----------------------------------------------------------------------------
(*                    Properties of Backoff (SpecBackoff)                   *)

(* C4: starting from attempt_count 0 (a Backoff never reset), the first     *)
(* max_attempts consecutive calls of next() succeed and each adds 1 to      *)
(* attempt_count; every later call, the (max_attempts+1)-th first, fails    *)
(* with StopIteration (RetryLimitExceeded) and leaves attempt_count at      *)
(* max_attempts.                                                            *)
C4_NextSucceedsMaxTimes ==
    ~was_reset =>
        /\ consec <= bo_max => bo_n = consec
        /\ (consec >= 1 /\ consec <= bo_max) => next_result = "ok"
        /\ consec > bo_max => (bo_n = bo_max /\ next_result = "StopIteration")

(* the (max_attempts+1)-th call on a Backoff never reset has failed *)
C4_Witness ==
    /\ ~was_reset
    /\ consec = bo_max + 1
    /\ next_result = "StopIteration"

(* C5: under any sequence of next(), reset() and scheduled resets,          *)
(* attempt_count stays in [0, max_attempts]; right after a reset() it is 0; *)
(* and counting from the latest reset(), the first max_attempts calls of    *)
(* next() succeed again and only later ones fail.                           *)
C5_RangeAndReset ==
    /\ bo_n \in 0..bo_max
    /\ last_op = "reset" => (bo_n = 0 /\ consec = 0)
    /\ was_reset =>
        /\ consec <= bo_max => bo_n = consec
        /\ (consec >= 1 /\ consec <= bo_max /\ last_op = "next") => next_result = "ok"
        /\ (consec > bo_max /\ last_op = "next") => next_result = "StopIteration"

(* after a reset, max_attempts further calls have succeeded *)
C5_Witness ==
    /\ was_reset
    /\ last_op = "next"
    /\ consec = bo_max
    /\ bo_n = bo_max
    /\ next_result = "ok"

(* C16: when the scheduled reset_backoff runs, attempt_count becomes 0 if   *)
(* the sequence number it was scheduled with equals attempt_count at that   *)
(* moment; if a later next() has moved the counter away from the tag,       *)
(* attempt_count (and what next() will do) is left as it is.                *)
C16_StaleResetIgnored ==
    [][(reset_task.state = "pending" /\ reset_task'.state = "fired")
          => IF reset_task.seq = bo_n
                THEN bo_n' = 0 /\ last_op' = "reset"
                ELSE bo_n' = bo_n /\ consec' = consec /\ last_op' = "stale_reset"]_vars

(* a reset scheduled before a failure ran after it and changed nothing *)
C16_Witness ==
    /\ last_op = "stale_reset"
    /\ reset_task.state = "fired"
    /\ reset_task.seq < bo_n
    /\ bo_n = consec

----------------------------------------------------------------------------
(*          Properties of the supervisor and its sessions                   *)

(* ways a session or the sleep ends that are not a session failure *)
NonFailurePaths == {"interrupt", "setup_exit", "setup_fault", "sleep_interrupt"}

ExitedRetryLimit == exit_kind = "sys_exit" /\ exit_code = RETRY_MAX_ATTEMPTS

Outstanding == {t \in TaskIds : tasks[t] \in {"pending", "cancelling"}}

(* the ways the try block of run() is left *)
SessionExitPaths == {"normal", "exception", "interrupt"}

(* C11: KazCog.state.write() runs exactly once in every session whose try   *)
(* block was entered, whether it ended by a disconnect, by an Exception or  *)
(* by a KeyboardInterrupt: it has not run before the gathered tasks are all *)
(* done, it runs when they are and no task is outstanding, and it has run   *)
(* once when run() has been left.                                           *)
C11_StateWrittenOnce ==
    /\ [](state_writes \in {0, 1})
    /\ [](pc \in SessionPcs => state_writes = 0)
    /\ []((path \in SessionExitPaths /\ pc \notin SessionPcs) => state_writes = 1)
    /\ [][state_writes' # state_writes
            => \/ state_writes' = 0
               \/ /\ pc = "write_state"
                  /\ path \in SessionExitPaths
                  /\ state_writes' = 1
                  /\ GatherComplete(tasks, pending)
                  /\ Outstanding = {}]_vars

(* an interrupted session cancelled a task, wrote the state once and the    *)
(* process has exited                                                       *)
C11_Witness ==
    /\ path = "interrupt"
    /\ pc = "done"
    /\ state_writes = 1
    /\ \E t \in TaskIds : tasks[t] = "cancelled"

(* C17: the reset scheduled when an iteration starts runs only inside one   *)
(* of that iteration's run_until_complete() calls and only once wait_time   *)
(* has elapsed since it was scheduled; it is not pending when next() is     *)
(* called, during the sleep, or when the next reset is scheduled, so it     *)
(* cannot run during the sleep or a later session and at most one reset is  *)
(* pending at a time; a cancelled or fired reset does not run (again).      *)
C17_ResetOnlyDuringItsSession ==
    /\ [](pc \in {"next", "sleep", "schedule"} => reset_task.state # "pending")
    /\ [][reset_task'.state = "fired" /\ reset_task.state # "fired"
            => /\ reset_task.state = "pending"
               /\ reset_task'.seq = reset_task.seq
               /\ pc \in LoopRunningPcs
               /\ pc' = pc
               /\ due]_vars
    /\ [][reset_task.state \in {"cancelled", "fired"} /\ reset_task' # reset_task
            => pc = "schedule" /\ reset_task'.state = "pending"]_vars
    /\ [][reset_task.state = "pending" /\ reset_task'.state = "cancelled"
            => pc = "cancel_reset" /\ bo_n' = bo_n /\ last_op' = last_op]_vars

(* after a retry, the session outlived the delay next() had returned and    *)
(* the reset set attempt_count back to 0                                    *)
C17_Witness ==
    /\ reset_task.state = "fired"
    /\ pc \in LoopRunningPcs
    /\ ~wait_time.zero
    /\ last_op = "reset"
    /\ bo_n = 0

(* every session that returned to the reboot loop had seen its reset run *)
EverySessionOutlivesReset ==
    [](pc = "cancel_reset" => reset_task.state = "fired")

(* C24: if every session that returns to the reboot loop has lasted until   *)
(* its scheduled reset ran, attempt_count is never above 1, no call of      *)
(* next() raises StopIteration, every delay next() returns has exponent 0   *)
(* (initial_time plus the jitter), and the supervisor does not exit with    *)
(* RETRY_MAX_ATTEMPTS, however many sessions end.                           *)
C24_ResetsKeepCountLow ==
    EverySessionOutlivesReset
        => [](/\ bo_n <= 1
              /\ next_result # "StopIteration"
              /\ wait_time.exp = 0
              /\ exit_code # RETRY_MAX_ATTEMPTS)

(* the second session saw its reset run, ended, and next() returned a delay *)
(* with exponent 0 once more                                                *)
C24_Witness ==
    /\ pc = "sleep"
    /\ reset_task = [state |-> "fired", seq |-> 1]
    /\ last_op = "next"
    /\ bo_n = 1
    /\ wait_time = Delay(0, JitterMax)

(* C6: if every session ends in failure (a fault or a disconnect, nothing   *)
(* interrupts the process) before its scheduled reset fires, the supervisor *)
(* eventually exits with RETRY_MAX_ATTEMPTS; and once next() has raised     *)
(* StopIteration no session is started any more.                            *)
C6_RetryLimitTerminates ==
    /\ <>(reset_fired \/ path \in NonFailurePaths \/ ExitedRetryLimit)
    /\ [][next_result = "StopIteration"
            => /\ next_result' = "StopIteration"
               /\ pc' \notin (SessionPcs \cup {"schedule"})]_vars

(* the supervisor of runner.py:123 gave up without any reset having fired *)
C6_Witness ==
    /\ ExitedRetryLimit
    /\ pc = "done"
    /\ ~reset_fired
    /\ bo_max = SupervisorMaxAttempts
    /\ path \in {"normal", "exception"}

(* C7, as stated: with max_attempts = 3 and no reset in between, the third  *)
(* call of next() (after the third consecutive failure) raises.             *)
C7_ThirdCallRaises ==
    (bo_max = ScenarioMaxAttempts /\ consec = bo_max /\ last_op = "next")
        => next_result = "StopIteration"

(* C7, amended: with no reset in between, the first max_attempts calls of   *)
(* next(), one after each consecutive session failure, succeed and the      *)
(* supervisor goes on to sleep and retry; the call after one more failure   *)
(* (the fourth for max_attempts = 3) raises, no session follows it and the  *)
(* process exits with RETRY_MAX_ATTEMPTS.                                   *)
C7_CallAfterLimitRaises ==
    /\ consec <= bo_max + 1
    /\ (consec >= 1 /\ consec <= bo_max) =>
            /\ next_result = "ok"
            /\ exc # "StopIteration"
            /\ ~ExitedRetryLimit
    /\ (consec = bo_max /\ pc \in {"sleep", "schedule"}) =>
            /\ bo_n = bo_max
            /\ path \in {"normal", "exception"}
    /\ consec = bo_max + 1 =>
            /\ next_result = "StopIteration"
            /\ pc \in {"except", "finally", "done"}
            /\ pc = "done" => ExitedRetryLimit

(* max_attempts = 3: the fourth call has raised and the process has exited *)
C7_Witness ==
    /\ bo_max = ScenarioMaxAttempts
    /\ consec = bo_max + 1
    /\ pc = "done"
    /\ ExitedRetryLimit

(* positions of the supervisor that call next() or start a session *)
RetryPcs == {"cancel_reset", "next", "sleep", "schedule", "setup", "login", "connect"}

(* C8: once a KeyboardInterrupt has been caught in a session, the client is *)
(* closed, the process ends by sys.exit(OK), OK differing from ERROR and    *)
(* RETRY_MAX_ATTEMPTS, next() is not called and no session is started.      *)
C8_InterruptExitsOk ==
    /\ [](path = "interrupt" /\ pc # "close"
            => /\ conn = "closed"
               /\ exc = "SystemExit"
               /\ exit_code = OK
               /\ exit_code \notin {ERROR, RETRY_MAX_ATTEMPTS}
               /\ pc = "done" => exit_kind = "sys_exit")
    /\ [][path = "interrupt"
            => /\ path' = "interrupt"
               /\ pc' \notin RetryPcs
               /\ <<bo_n, next_result, consec>>' = <<bo_n, next_result, consec>>
                  \/ last_op' # "next"]_vars

(* a session of a supervisor that had already retried was interrupted and   *)
(* the process has exited                                                   *)
C8_Witness ==
    /\ path = "interrupt"
    /\ pc = "done"
    /\ exit_kind = "sys_exit"
    /\ exit_code = OK
    /\ next_result = "ok"

(* the order of the supervisor's positions after a session fault *)
C9_Follows(p, q) ==
    CASE p = "close"        -> q = "cancel_tasks"
      [] p = "cancel_tasks" -> q = "gather"
      [] p = "gather"       -> q = "write_state"
      [] p = "write_state"  -> q = "cancel_reset"
      [] p = "cancel_reset" -> q = "next"
      [] p = "next"         -> q = IF bo_n < bo_max THEN "sleep" ELSE "except"
      [] p = "sleep"        -> q \in {"schedule", "except"}
      [] p = "schedule"     -> q = "setup"
      [] p = "except"       -> q = "finally"
      [] p = "finally"      -> q = "done"
      [] OTHER              -> FALSE

(* C9: an Exception raised while the session logs in or is connected does   *)
(* not leave run(): the client is closed, run() returns with nothing in     *)
(* flight, and the supervisor cancels the reset, calls next() and, unless   *)
(* next() raises (or the sleep is interrupted), starts another session.     *)
C9_FaultDoesNotPropagate ==
    /\ [](path = "exception" /\ pc \in {"cancel_tasks", "gather", "write_state",
                                       "cancel_reset", "next", "sleep", "schedule"}
            => exc = "none" /\ conn = "closed")
    /\ [][(path = "exception" /\ pc' # pc) => C9_Follows(pc, pc')]_vars

(* after a session fault the supervisor is about to start the next session *)
C9_Witness ==
    /\ path = "exception"
    /\ pc = "schedule"
    /\ next_result = "ok"

(* C10: however the try block of run() ended, when run() is left (and       *)
(* already when it writes the state) no task is outstanding: all were       *)
(* cancelled and awaited; and what the cancelled tasks raise does not leave *)
(* run(): a SystemExit is in flight after an interrupt and nothing else.    *)
C10_NoTaskOutlivesSession ==
    /\ pc \notin (SessionPcs \ {"write_state"}) => Outstanding = {}
    /\ pc = "write_state" =>
            exc = (IF path = "interrupt" THEN "SystemExit" ELSE "none")
    /\ pc \in {"cancel_reset", "next", "sleep"} => exc = "none"

(* run() has returned after cancelling a task that was still outstanding *)
C10_Witness ==
    /\ pc = "cancel_reset"
    /\ \E t \in TaskIds : tasks[t] = "cancelled"
    /\ \E t \in TaskIds : tasks[t] = "finished"

(* the process has ended in one of the four ways run_reboot_loop can end *)
ExitPathTaken ==
    \/ ExitedRetryLimit
    \/ path = "sleep_interrupt" /\ exit_kind = "returned"
    \/ path = "interrupt" /\ exit_kind = "sys_exit" /\ exit_code = OK
    \/ path = "setup_exit" /\ exit_kind = "sys_exit" /\ exit_code = EXTENSION_LOAD
    \/ path = "setup_fault" /\ exit_kind = "raised"

(* C25: a KeyboardInterrupt raised in the reboot loop outside run() (during *)
(* time.sleep) ends the supervisor: no session is started and next() is not *)
(* called any more, run_reboot_loop returns, without RETRY_MAX_ATTEMPTS and *)
(* without StopIteration; and however the supervisor ends (retry limit,     *)
(* interrupt in a session, interrupt during the sleep, sys.exit or fault    *)
(* from run()) loop.close() has run exactly once when it has ended, and     *)
(* never before.                                                            *)
C25_SleepInterruptAndLoopClosedOnce ==
    /\ [][path = "sleep_interrupt"
            => /\ path' = "sleep_interrupt"
               /\ pc' \in {"except", "finally", "done"}
               /\ bo_vars' = bo_vars
               /\ reset_task' = reset_task]_vars
    /\ [](path = "sleep_interrupt"
            => /\ exit_code # RETRY_MAX_ATTEMPTS
               /\ next_result # "StopIteration"
               /\ exc \in {"KeyboardInterrupt", "none"}
               /\ pc = "done" => exit_kind = "returned")
    /\ (path = "sleep_interrupt" ~> pc = "done")
    /\ [](loop_closed = (IF pc = "done" THEN 1 ELSE 0))
    /\ [](pc = "done" <=> exit_kind # "running")
    /\ [](pc = "done" => ExitPathTaken)
    /\ [][loop_closed' # loop_closed => pc = "finally" /\ pc' = "done"]_vars

(* the sleep after the second session was interrupted and run_reboot_loop   *)
(* has returned, the loop closed once                                       *)
C25_Witness ==
    /\ path = "sleep_interrupt"
    /\ pc = "done"
    /\ exit_kind = "returned"
    /\ loop_closed = 1
    /\ consec = 2

====
